---- MODULE Spec2Model ----
(***************************************************************************)
(* Ecowitt Direct local weather server                                     *)
(* (weather/contrib/ecowittdirect/server.py).                              *)
(*                                                                         *)
(* Three kinds of threads share the module globals weather, raw, LOADED,   *)
(* running and serverstats without any lock:                               *)
(*   - fetchWeather, the poller;                                           *)
(*   - api, the accept loop, which starts one handler thread per request   *)
(*     (ThreadingMixIn), each running handler.do_GET;                      *)
(*   - the main thread, which clears `running` on KeyboardInterrupt.       *)
(* A step of the model is one access to shared state by one thread, so     *)
(* the interleavings TLC explores are those the interpreter may produce.   *)
(***************************************************************************)
EXTENDS Integers, Sequences, FiniteSets, TLC

(* ------------------------------ bounds --------------------------------- *)
\* handler threads that can be in flight at once
NumHandlers == 2
\* client requests accepted in one run
MaxRequests == 3
\* time.sleep(5) calls of the poller in one run
MaxSleeps == 2
\* time.time() when fetchWeather starts (an epoch time, never 0)
T0 == 1
\* seconds a slow device takes to answer one GET
SlowFetch == 7

(* ------------------------- program constants --------------------------- *)
\* [EcowittDirect] WAIT of the documented configuration
ECOWAIT == 1
\* nextupdate = currentts + (10 * ECOWAIT)
WaitScale == 10
\* time.sleep(5)
SleepSecs == 5
\* Python's None in a weather field; getval strips '-', so no parsed value
\* is negative
None == -1

Handlers == 1..NumHandlers

(* --------------------------- Observation ------------------------------- *)
\* the keys of the dict built by clearweather(), in insertion order
FieldOrder ==
    << "dt", "temperature", "humidity", "pressure", "feels_like", "app_temp",
       "wind_speed", "wind_deg", "wind_gust", "rain_1h", "rain_24h",
       "solar", "uvi", "inside_temp", "inside_humidity",
       "pm25", "pm25aqi", "pm10", "pm10aqi", "co2" >>

Fields == { FieldOrder[i] : i \in 1..Len(FieldOrder) }

\* the dict clearweather() binds to the global weather
clearweather ==
    [ f \in Fields |->
        IF f \in {"dt", "rain_1h", "rain_24h", "solar", "uvi"} THEN 0 ELSE None ]

OBSERVATION_MAP ==
    [ c \in {"0x02", "0x07", "0x03", "0x04", "0x05", "0x0A", "0x0B", "0x0C",
             "0x0E", "0x10", "0x15", "0x16", "0x17"} |->
        CASE c = "0x02" -> "temperature"
          [] c = "0x07" -> "humidity"
          [] c = "0x03" -> "dewpoint"
          [] c = "0x04" -> "windchill"
          [] c = "0x05" -> "heatindex"
          [] c = "0x0A" -> "wind_deg"
          [] c = "0x0B" -> "wind_speed"
          [] c = "0x0C" -> "wind_gust"
          [] c = "0x0E" -> "rain_1h"
          [] c = "0x10" -> "rain_24h"
          [] c = "0x15" -> "solar"
          [] c = "0x16" -> "uvi"
          [] c = "0x17" -> "uvi" ]

WH25_MAP ==
    [ c \in {"intemp", "inhumi", "abs"} |->
        CASE c = "intemp" -> "inside_temp"
          [] c = "inhumi" -> "inside_humidity"
          [] c = "abs"    -> "pressure" ]

CO2_MAP ==
    [ c \in {"PM25", "PM25_RealAQI", "PM10", "PM10_RealAQI", "CO2"} |->
        CASE c = "PM25"         -> "pm25"
          [] c = "PM25_RealAQI" -> "pm25aqi"
          [] c = "PM10"         -> "pm10"
          [] c = "PM10_RealAQI" -> "pm10aqi"
          [] c = "CO2"          -> "co2" ]

(* ----------------------------- Field Mapper ---------------------------- *)
\* getval(val): re.sub() returns a str and round(<str>, 1) raises TypeError
\* ("type str doesn't define __round__ method") for every str; for a val that
\* is not a str, re.sub() itself raises TypeError.  ok = FALSE is the raise.
getval(val) == [ ok |-> FALSE, v |-> None ]

\* app_temp(temp, humidity, wind): float(None) / int(None) raise TypeError.
\* The Steadman arithmetic on present inputs is kept symbolic.
app_temp(temp, humidity, wind) ==
    IF temp = None \/ humidity = None \/ wind = None
    THEN [ ok |-> FALSE, v |-> None ]
    ELSE [ ok |-> TRUE, v |-> << "steadman", temp, humidity, wind >> ]

\* one "for observation in raw[key]" loop: the first getval that raises
\* leaves the loop (and the whole try block) with what was assigned so far
RECURSIVE MapPairs(_, _, _)
MapPairs(w, list, map) ==
    IF list = << >> THEN [ w |-> w, exc |-> FALSE ]
    ELSE LET o == Head(list) IN
         IF o.id \in DOMAIN map
         THEN LET g == getval(o.val) IN
              IF g.ok
              THEN MapPairs([w EXCEPT ![map[o.id]] = g.v], Tail(list), map)
              ELSE [ w |-> w, exc |-> TRUE ]
         ELSE MapPairs(w, Tail(list), map)

\* 'if key in raw: for ... in raw[key]', skipped once an exception is pending
MapCategory(st, r, key, map) ==
    IF st.exc \/ key \notin DOMAIN r THEN st ELSE MapPairs(st.w, r[key], map)

\* the body of the inner try block after weather["dt"] is set: the four
\* categories in order, then app_temp
MapWeather(w, r) ==
    LET s0 == [ w |-> w, exc |-> FALSE ]
        s1 == MapCategory(s0, r, "common_list", OBSERVATION_MAP)
        s2 == MapCategory(s1, r, "rain", OBSERVATION_MAP)
        s3 == MapCategory(s2, r, "wh25", WH25_MAP)
        s4 == MapCategory(s3, r, "co2", CO2_MAP)
        a  == app_temp(s4.w["temperature"], s4.w["humidity"], s4.w["wind_speed"])
    IN  IF s4.exc THEN s4
        ELSE IF a.ok THEN [ w |-> [s4.w EXCEPT !["app_temp"] = a.v], exc |-> FALSE ]
        ELSE [ w |-> s4.w, exc |-> TRUE ]

\* fault injection: a mapping exception abandons the cycle
AfterMapping_Abandon(exc) == IF exc THEN "sleep" ELSE "loaded"

\* where fetchWeather goes when the inner try block is left: its bare
\* 'except: ... pass' falls through to 'LOADED = True' like a normal exit
AfterMapping(exc) == "loaded"

(* ------------------------- device responses ---------------------------- *)
\* raw = {} at module load
EmptyRaw == [ k \in {} |-> << >> ]

\* a payload with recognised codes in every category
RawFull ==
    [ common_list |-> << [id |-> "0x02", val |-> "20.5"],
                         [id |-> "0x07", val |-> "50%"],
                         [id |-> "0x0B", val |-> "10.0 km/h"] >>,
      rain        |-> << [id |-> "0x0E", val |-> "0.0 mm"] >>,
      wh25        |-> << [id |-> "intemp", val |-> "21.3"] >>,
      co2         |-> << [id |-> "CO2", val |-> "415"] >> ]

\* a payload with one unrecognised code and no other category
RawUnknown ==
    [ common_list |-> << [id |-> "0x99", val |-> "7"] >> ]

\* a payload in which one value of a recognised code holds no number, with
\* recognised codes before it, after it and in another category
RawMalformed ==
    [ common_list |-> << [id |-> "0x02", val |-> "20.5"],
                         [id |-> "0x07", val |-> "--"],
                         [id |-> "0x0B", val |-> "10.0 km/h"] >>,
      wh25        |-> << [id |-> "intemp", val |-> "21.3"] >> ]

Bodies == {"full", "unknown", "malformed", "undecodable"}

\* response.json(): raises on a body that is not JSON
Decode(body) ==
    CASE body = "full"      -> [ ok |-> TRUE,  v |-> RawFull ]
      [] body = "unknown"   -> [ ok |-> TRUE,  v |-> RawUnknown ]
      [] body = "malformed" -> [ ok |-> TRUE,  v |-> RawMalformed ]
      [] OTHER              -> [ ok |-> FALSE, v |-> EmptyRaw ]

\* what requests.get(URL) can do: raise, return a status and a body, or,
\* called without a timeout as it is, wait without end for a device that
\* holds the connection open and sends nothing ("silent")
Responses ==
    { [ kind |-> k, status |-> 0, body |-> "undecodable" ] : k \in {"exc", "silent"} } \cup
    { [ kind |-> "http", status |-> s, body |-> b ] : s \in {200, 500}, b \in Bodies }

\* fault injection: the status test left out
StatusOK_AnyStatus(status) == TRUE

\* response.status_code == 200
StatusOK(status) == status = 200

\* how one fetch ends: "exc" (requests.get raised), "non200", "badjson"
\* (response.json() raised) or "ok"; "blocked" when requests.get never returns
FetchOutcome(resp) ==
    IF resp.kind = "silent" THEN "blocked"
    ELSE IF resp.kind = "exc" THEN "exc"
    ELSE IF ~StatusOK(resp.status) THEN "non200"
    ELSE IF ~Decode(resp.body).ok THEN "badjson"
    ELSE "ok"

(* ------------------------------- sink ---------------------------------- *)
\* what the InfluxDB client can do in one cycle
SinkOutcomes ==
    { "ctor_raises", "write_raises", "write_false", "write_false_close_raises",
      "write_true", "write_true_close_raises" }

\* the outcomes in which the write did not succeed
SinkFailures ==
    { "ctor_raises", "write_raises", "write_false", "write_false_close_raises" }

\* serverstats['influxdb'] after the sink block
SinkOk(o, n) ==
    IF o \in {"write_true", "write_true_close_raises"} THEN n + 1 ELSE n

\* fault injection: the 'else' branch of write_points left out, so that only
\* an exception counts
SinkErr_RaisesOnly(o, n) ==
    IF o \in {"ctor_raises", "write_raises", "write_true_close_raises",
              "write_false_close_raises"}
    THEN n + 1 ELSE n

\* serverstats['influxdberrors'] after the sink block: the else branch of
\* write_points, and the except branch (which also catches client.close())
SinkErr(o, n) ==
    CASE o = "write_true"               -> n
      [] o = "write_true_close_raises"  -> n + 1
      [] o = "write_false"              -> n + 1
      [] o = "write_false_close_raises" -> n + 2
      [] OTHER                          -> n + 1

\* whether write_points was called
SinkWrites(o) == o # "ctor_raises"

(* ----------------------------- routing --------------------------------- *)
\* the paths the routing table of the design names
SpecRoutes ==
    { "/", "/json", "/all", "/raw", "/stats", "/time",
      "/temperature", "/humidity", "/pressure", "/feels_like", "/app_temp",
      "/uvi", "/solar", "/wind", "/indoor", "/aqi", "/rain", "/precipitation" }

\* the if/elif chain of do_GET: which branch serves a path
Route(path) ==
    CASE path = "/"                  -> "index"
      [] path = "/stats"             -> "stats"
      [] path \in {"/json", "/all"}  -> "json"
      [] path = "/raw"               -> "raw"
      [] path = "/time"              -> "time"
      [] path \in { "/temp", "/temperature", "/humidity", "/pressure",
                    "/feels_like", "/app_temp", "/wind", "/solar", "/uvi",
                    "/indoor", "/aqi", "/rain", "/precipitation",
                    "/conditions", "/weather" } -> "fields"
      [] OTHER                       -> "unsupported"

\* the weather keys a "fields" branch reads, in the order it reads them
RouteFields(path) ==
    CASE path = "/temp"        -> << "temperature" >>
      [] path = "/temperature" -> << "temperature" >>
      [] path = "/humidity"    -> << "humidity" >>
      [] path = "/pressure"    -> << "pressure" >>
      [] path = "/feels_like"  -> << "feels_like" >>
      [] path = "/app_temp"    -> << "app_temp" >>
      [] path = "/wind"        -> << "wind_speed", "wind_deg", "wind_gust" >>
      [] path = "/solar"       -> << "solar" >>
      [] path = "/uvi"         -> << "uvi" >>
      [] path = "/indoor"      -> << "inside_temp", "inside_humidity" >>
      [] path = "/aqi"         -> << "pm25", "pm25aqi", "pm10", "pm10aqi", "co2" >>
      [] path \in {"/rain", "/precipitation"}
                               -> << "rain_1h", "rain_3h", "snow_1h", "snow_3h", "rain_24h" >>
      [] path \in {"/conditions", "/weather"}
                               -> << "weather_main", "weather_description", "weather_icon" >>
      [] OTHER                 -> << >>

\* the paths whose response is built from weather
ObsPaths == { p \in SpecRoutes : Route(p) \in {"index", "json", "fields"} }

\* the paths clients request in the model
ReqPaths == { "/", "/json", "/wind", "/rain", "/stats", "/raw", "/nonexistent" }

\* the device never answers: requests.get raises
DeviceDown == { r \in Responses : r.kind = "exc" }

\* The runs explored.  Each is an environment the program can meet:
\*   burst: MaxRequests requests on NumHandlers threads while the device is down;
\*   poll:  one request at any point of MaxSleeps + 1 poller iterations;
\*   sink:  MaxSleeps + 1 poller iterations with InfluxDB enabled and a device
\*          that answers at once or after SlowFetch seconds, no request;
\*   stop:  one request, one poll cycle, and a KeyboardInterrupt at any point.
Workloads ==
    { [ name |-> "burst", requests |-> MaxRequests, sleeps |-> 0,
        paths |-> {"/json", "/nonexistent"}, responses |-> DeviceDown,
        delays |-> {0}, influx |-> {FALSE}, interrupt |-> FALSE ],
      [ name |-> "poll", requests |-> 1, sleeps |-> MaxSleeps,
        paths |-> ReqPaths, responses |-> Responses,
        delays |-> {0}, influx |-> {FALSE}, interrupt |-> FALSE ],
      [ name |-> "sink", requests |-> 0, sleeps |-> MaxSleeps,
        paths |-> {}, responses |-> Responses,
        delays |-> {0, SlowFetch}, influx |-> {TRUE}, interrupt |-> FALSE ],
      [ name |-> "stop", requests |-> 1, sleeps |-> 1,
        paths |-> {"/json"}, responses |-> Responses,
        delays |-> {0}, influx |-> {TRUE}, interrupt |-> TRUE ] }

\* json.dumps(raw) holds the text "Error" when a device value does
HasErrorText(r) ==
    \E k \in DOMAIN r : \E i \in 1..Len(r[k]) : r[k][i].val = "Error"

\* fault injection: every request counted per path, errors included
CountTarget_AlwaysUri(err) == "uri"

\* 'if "Error" in message' at the head of the counting block
CountTarget(err) == IF err THEN "errors" ELSE "uri"

(* ------------------------------- state --------------------------------- *)
VARIABLES
    env,            \* the workload of this run (never changes)
    now,            \* time.time()
    running,        \* global running
    LOADED,         \* global LOADED
    weather,        \* global weather (the dict it is bound to)
    raw,            \* global raw
    INFLUX,         \* [InfluxDB] ENABLE
    serverstats,    \* global serverstats
    sinkLog,        \* the records handed to write_points, in order
    pPc,            \* fetchWeather: where the thread is
    nextupdate,     \* fetchWeather: local nextupdate
    currentts,      \* fetchWeather: local currentts
    lasttime,       \* fetchWeather: local lasttime
    sleeps,         \* time.sleep(5) calls so far
    apiPc,          \* api: where the accept loop is
    mainPc,         \* __main__: where the main thread is
    hs,             \* the handler threads: locals of do_GET
    nreq,           \* client requests accepted so far
    served,         \* requests whose do_GET returned
    pre,            \* history: shared state when the current cycle fired
    cycle,          \* history: how the cycle of this loop iteration went
    published,      \* history: weather at the end of the last mapping
    overlapped      \* history: two handlers have been in flight at once

vars ==
    << env, now, running, LOADED, weather, raw, INFLUX, serverstats, sinkLog,
       pPc, nextupdate, currentts, lasttime, sleeps, apiPc, mainPc, hs,
       nreq, served, pre, cycle, published, overlapped >>

pollerVars == << pPc, nextupdate, currentts, lasttime, sleeps >>
storeVars  == << weather, raw, LOADED >>
histVars   == << pre, cycle, published, overlapped >>

\* a dict with no key
EmptyDict == [ k \in {} |-> None ]

\* a handler slot with no thread in it
Idle ==
    [ pc |-> "idle", path |-> "", err |-> FALSE, body |-> EmptyDict,
      idx |-> 0, tmp |-> 0, ld |-> FALSE, seen |-> {} ]

\* what the device did, whatever the poller made of it: "silent" when it
\* never answered, "failed" when the request raised, the status was not 200
\* or the body was not JSON
DeviceResult(resp) ==
    IF resp.kind = "silent" THEN "silent"
    ELSE IF resp.kind = "exc" \/ resp.status # 200 \/ resp.body = "undecodable"
    THEN "failed" ELSE "ok"

NoCycle == [ fetch |-> "none", mapexc |-> FALSE, sink |-> "none" ]

\* fire is the clock reading of the timer fire, prevFire that of the fire
\* before it (None before the second one)
Snapshot ==
    [ weather |-> weather, raw |-> raw, LOADED |-> LOADED,
      sinkLen |-> Len(sinkLog), influxdb |-> serverstats.influxdb,
      influxdberrors |-> serverstats.influxdberrors,
      fire |-> now, prevFire |-> pre.fire ]

Init ==
    /\ env \in Workloads
    /\ now = T0
    /\ running = TRUE
    /\ LOADED = FALSE
    /\ weather = clearweather
    /\ raw = EmptyRaw
    /\ INFLUX \in env.influx
    /\ serverstats =
         [ gets |-> 0, errors |-> 0, timeout |-> 0, uri |-> EmptyDict,
           ts |-> T0, start |-> T0, clear |-> T0,
           influxdb |-> 0, influxdberrors |-> 0 ]
    /\ sinkLog = << >>
    /\ pPc = "loop"
    /\ nextupdate = T0
    /\ currentts = T0
    /\ lasttime = T0
    /\ sleeps = 0
    /\ apiPc = "check"
    /\ mainPc = "run"
    /\ hs = [ h \in Handlers |-> Idle ]
    /\ nreq = 0
    /\ served = 0
    /\ pre = [ weather |-> clearweather, raw |-> EmptyRaw, LOADED |-> FALSE,
               sinkLen |-> 0, influxdb |-> 0, influxdberrors |-> 0,
               fire |-> None, prevFire |-> None ]
    /\ cycle = NoCycle
    /\ published = clearweather
    /\ overlapped = FALSE

(* --------------------------- fetchWeather ------------------------------ *)
\* fault injection: the factor 10 left out
NextUpdate_Unscaled(ts) == ts + ECOWAIT

\* nextupdate = currentts + (10 * ECOWAIT)
NextUpdate(ts) == ts + (WaitScale * ECOWAIT)

\* while(running): currentts = lasttime = time.time(); if currentts >= nextupdate
P_Check ==
    /\ pPc = "loop"
    /\ IF ~running
       THEN /\ pPc' = "exit"
            /\ UNCHANGED << nextupdate, currentts, lasttime, histVars >>
       ELSE /\ currentts' = now
            /\ lasttime' = now
            /\ IF now >= nextupdate
               THEN /\ nextupdate' = NextUpdate(now)
                    /\ pPc' = "fetch"
                    /\ pre' = Snapshot
                    /\ cycle' = NoCycle
                    /\ UNCHANGED published
               ELSE /\ pPc' = "sleep"
                    /\ cycle' = NoCycle
                    /\ UNCHANGED << nextupdate, pre, published >>
    /\ UNCHANGED << env, now, running, storeVars, INFLUX, serverstats, sinkLog,
                    sleeps, apiPc, mainPc, hs, nreq, served, overlapped >>

\* response = requests.get(URL); the status test; raw = response.json().
\* Every failure ends in a log line and falls through to time.sleep(5).
\* No timeout is passed (TIMEOUT is read from the configuration and never
\* used): when the device never answers the thread stays in the call ("hung").
\* The call takes d seconds of the clock.
P_Fetch ==
    /\ pPc = "fetch"
    /\ \E resp \in env.responses, d \in env.delays :
         LET out == FetchOutcome(resp) IN
         /\ cycle' = [cycle EXCEPT !.fetch = DeviceResult(resp)]
         /\ now' = IF out = "blocked" THEN now ELSE now + d
         /\ IF out = "ok"
            THEN /\ raw' = Decode(resp.body).v
                 /\ pPc' = "clear"
            ELSE /\ UNCHANGED raw
                 /\ pPc' = IF out = "blocked" THEN "hung" ELSE "sleep"
    /\ UNCHANGED << env, running, LOADED, weather, INFLUX, serverstats, sinkLog,
                    nextupdate, currentts, lasttime, sleeps, apiPc, mainPc, hs,
                    nreq, served, pre, published, overlapped >>

\* clearweather(): the global is bound to a fresh dict of defaults
P_Clear ==
    /\ pPc = "clear"
    /\ weather' = clearweather
    /\ pPc' = "setdt"
    /\ UNCHANGED << env, now, running, LOADED, raw, INFLUX, serverstats, sinkLog,
                    nextupdate, currentts, lasttime, sleeps, apiPc, mainPc, hs,
                    nreq, served, histVars >>

\* weather["dt"] = int(lasttime)
P_SetDt ==
    /\ pPc = "setdt"
    /\ weather' = [weather EXCEPT !["dt"] = lasttime]
    /\ pPc' = "map"
    /\ UNCHANGED << env, now, running, LOADED, raw, INFLUX, serverstats, sinkLog,
                    nextupdate, currentts, lasttime, sleeps, apiPc, mainPc, hs,
                    nreq, served, histVars >>

\* the rest of the inner try block; its bare except logs and goes on
P_Map ==
    /\ pPc = "map"
    /\ LET m == MapWeather(weather, raw) IN
         /\ weather' = m.w
         /\ cycle' = [cycle EXCEPT !.mapexc = m.exc]
         /\ published' = m.w
         /\ pPc' = AfterMapping(m.exc)
    /\ UNCHANGED << env, now, running, LOADED, raw, INFLUX, serverstats, sinkLog,
                    nextupdate, currentts, lasttime, sleeps, apiPc, mainPc, hs,
                    nreq, served, pre, overlapped >>

\* LOADED = True; if INFLUX
P_Loaded ==
    /\ pPc = "loaded"
    /\ LOADED' = TRUE
    /\ pPc' = IF INFLUX THEN "sink" ELSE "sleep"
    /\ UNCHANGED << env, now, running, weather, raw, INFLUX, serverstats, sinkLog,
                    nextupdate, currentts, lasttime, sleeps, apiPc, mainPc, hs,
                    nreq, served, histVars >>

\* the InfluxDB block: one record with every weather field, then the counters
P_Sink ==
    /\ pPc = "sink"
    /\ \E o \in SinkOutcomes :
         /\ serverstats' =
              [serverstats EXCEPT
                 !.influxdb = SinkOk(o, @),
                 !.influxdberrors = SinkErr(o, @)]
         /\ sinkLog' =
              IF SinkWrites(o)
              THEN Append(sinkLog, [ time |-> currentts, fields |-> weather ])
              ELSE sinkLog
         /\ cycle' = [cycle EXCEPT !.sink = o]
    /\ pPc' = "sleep"
    /\ UNCHANGED << env, now, running, storeVars, INFLUX,
                    nextupdate, currentts, lasttime, sleeps, apiPc, mainPc, hs,
                    nreq, served, pre, published, overlapped >>

\* time.sleep(5).  The sleeps of a run are bounded by the workload while the
\* flag is set; once it is cleared the sleep in progress is the last one.
P_Sleep ==
    /\ pPc = "sleep"
    /\ sleeps < env.sleeps \/ ~running
    /\ now' = now + SleepSecs
    /\ sleeps' = sleeps + 1
    /\ pPc' = "loop"
    /\ UNCHANGED << env, running, storeVars, INFLUX, serverstats, sinkLog,
                    nextupdate, currentts, lasttime, apiPc, mainPc, hs,
                    nreq, served, histVars >>

(* ------------------------- history for readers ------------------------ *)
\* The Observation the cycle in progress will have built when its mapping
\* ends (none when the poller is not between clearweather() and that point).
Upcoming ==
    IF pPc \in {"clear", "setdt", "map"}
    THEN { MapWeather([clearweather EXCEPT !["dt"] = lasttime], raw).w }
    ELSE {}

\* The complete Observations a reader may be given at this instant if the
\* store is swapped atomically: the last completed one, or the new one.
Visible == {published} \cup Upcoming

(* ------------------------------ __main__ ------------------------------- *)
\* except (KeyboardInterrupt, SystemExit): running = False
M_Interrupt ==
    /\ mainPc = "run"
    /\ env.interrupt
    /\ running' = FALSE
    /\ mainPc' = "stop"
    /\ UNCHANGED << env, now, storeVars, INFLUX, serverstats, sinkLog, pollerVars,
                    apiPc, hs, nreq, served, histVars >>

\* requests.get('http://localhost:%d/stop') when the accept loop has left:
\* the connection is refused
M_StopRefused ==
    /\ mainPc = "stop"
    /\ apiPc = "exit"
    /\ mainPc' = "done"
    /\ UNCHANGED << env, now, running, storeVars, INFLUX, serverstats, sinkLog,
                    pollerVars, apiPc, hs, nreq, served, histVars >>

(* --------------------------------- api --------------------------------- *)
\* fault injection: the accept loop written as 'while True'
A_Check_Forever ==
    /\ apiPc = "check"
    /\ apiPc' = "accept"
    /\ UNCHANGED << env, now, running, storeVars, INFLUX, serverstats, sinkLog,
                    pollerVars, mainPc, hs, nreq, served, histVars >>

\* while running:
A_Check ==
    /\ apiPc = "check"
    /\ apiPc' = IF running THEN "accept" ELSE "exit"
    /\ UNCHANGED << env, now, running, storeVars, INFLUX, serverstats, sinkLog,
                    pollerVars, mainPc, hs, nreq, served, histVars >>

\* the slot a new handler thread takes
FreeSlot(h) ==
    /\ hs[h].pc = "idle"
    /\ \A g \in Handlers : g < h => hs[g].pc # "idle"

\* the slots whose handler thread has not finished
InFlight == { g \in Handlers : hs[g].pc # "idle" }

\* a handler thread entering do_GET for `path`
Started(path) == [ Idle EXCEPT !.pc = "build", !.path = path ]

\* server.handle_request() with a client's request: a thread is started for it
A_Accept(h, path) ==
    /\ apiPc = "accept"
    /\ FreeSlot(h)
    /\ path \in env.paths
    /\ nreq < env.requests
    /\ hs' = [hs EXCEPT ![h] = Started(path)]
    /\ nreq' = nreq + 1
    /\ apiPc' = "check"
    /\ overlapped' = (overlapped \/ InFlight # {})
    /\ UNCHANGED << env, now, running, storeVars, INFLUX, serverstats, sinkLog,
                    pollerVars, mainPc, served, pre, cycle, published >>

\* server.handle_request() with the main thread's GET /stop
A_AcceptStop(h) ==
    /\ apiPc = "accept"
    /\ mainPc = "stop"
    /\ FreeSlot(h)
    /\ hs' = [hs EXCEPT ![h] = Started("/stop")]
    /\ mainPc' = "done"
    /\ apiPc' = "check"
    /\ overlapped' = (overlapped \/ InFlight # {})
    /\ UNCHANGED << env, now, running, storeVars, INFLUX, serverstats, sinkLog,
                    pollerVars, nreq, served, pre, cycle, published >>

(* ---------------------------- handler.do_GET --------------------------- *)
\* The branches that build the message in one access to shared state.
\* "/": the LOADED test and the table loop are one step here; the footer's
\* own read of weather['dt'] is the next step (H_Footer).
H_Build(h) ==
    /\ hs[h].pc = "build"
    /\ Route(hs[h].path) # "fields"
    /\ LET r == Route(hs[h].path)
           st == [serverstats EXCEPT !.ts = now]
       IN
         /\ serverstats' = IF r = "stats" THEN st ELSE serverstats
         /\ hs' = [hs EXCEPT ![h] =
              [ @ EXCEPT
                  !.pc   = IF r = "index" THEN "footer" ELSE "count",
                  !.ld   = LOADED,
                  !.seen = IF r \in {"index", "json"} THEN Visible ELSE {},
                  !.err  = CASE r = "index"       -> ~LOADED
                             [] r = "raw"         -> HasErrorText(raw)
                             [] r = "unsupported" -> TRUE
                             [] OTHER             -> FALSE,
                  !.body = CASE r = "index" ->
                                  [ nodata |-> ~LOADED,
                                    rows   |-> IF LOADED THEN weather ELSE EmptyDict,
                                    last   |-> None ]
                             [] r = "stats" -> st
                             [] r = "json"  -> weather
                             [] r = "raw"   -> raw
                             [] r = "time"  -> [ ts |-> now ]
                             [] OTHER       -> [ text |-> "Error: Unsupported Request" ] ]]
    /\ UNCHANGED << env, now, running, storeVars, INFLUX, sinkLog, pollerVars,
                    apiPc, mainPc, nreq, served, histVars >>

\* "/": 'Last data update: %s' % fromtimestamp(int(weather['dt']))
H_Footer(h) ==
    /\ hs[h].pc = "footer"
    /\ hs' = [hs EXCEPT ![h] =
         [ @ EXCEPT !.pc = "count",
                    !.body = [ @ EXCEPT !.last = weather["dt"] ],
                    !.seen = @ \cup Visible ]]
    /\ UNCHANGED << env, now, running, storeVars, INFLUX, serverstats, sinkLog,
                    pollerVars, apiPc, mainPc, nreq, served, histVars >>

\* one 'result[k] = weather[k]' of a single-field or grouped branch; a key
\* that weather does not hold raises KeyError out of do_GET
H_Read(h) ==
    /\ hs[h].pc = "build"
    /\ Route(hs[h].path) = "fields"
    /\ LET fs == RouteFields(hs[h].path)
           i  == hs[h].idx + 1
           f  == fs[i]
       IN hs' = [hs EXCEPT ![h] =
            IF f \in DOMAIN weather
            THEN [ @ EXCEPT
                     !.idx  = i,
                     !.ld   = IF i = 1 THEN LOADED ELSE @,
                     !.body = IF i = 1 THEN (f :> weather[f])
                                       ELSE @ @@ (f :> weather[f]),
                     !.seen = @ \cup Visible,
                     !.pc   = IF i = Len(fs) THEN "count" ELSE "build" ]
            ELSE [ @ EXCEPT !.idx = i, !.pc = "raised" ]]
    /\ UNCHANGED << env, now, running, storeVars, INFLUX, serverstats, sinkLog,
                    pollerVars, apiPc, mainPc, nreq, served, histVars >>

\* fault injection: a handler that resets the Observation when a key is
\* missing
H_Abort_Resets(h) ==
    /\ hs[h].pc = "raised"
    /\ hs' = [hs EXCEPT ![h] = Idle]
    /\ weather' = clearweather
    /\ UNCHANGED << env, now, running, LOADED, raw, INFLUX, serverstats, sinkLog,
                    pollerVars, apiPc, mainPc, nreq, served, histVars >>

\* the exception leaves do_GET; socketserver logs it and closes the
\* connection: no headers, no body, no counter touched
H_Abort(h) ==
    /\ hs[h].pc = "raised"
    /\ hs' = [hs EXCEPT ![h] = Idle]
    /\ UNCHANGED << env, now, running, storeVars, INFLUX, serverstats, sinkLog,
                    pollerVars, apiPc, mainPc, nreq, served, histVars >>

\* the read half of "serverstats['errors'] = serverstats['errors'] + 1" or
\* of "if path in uri: uri[path] += 1 / else: uri[path] = 1"
H_Count(h) ==
    /\ hs[h].pc = "count"
    /\ LET t == CountTarget(hs[h].err)
           p == hs[h].path
       IN hs' = [hs EXCEPT ![h] =
            [ @ EXCEPT
                !.pc  = IF t = "errors" THEN "err_wr" ELSE "uri_wr",
                !.tmp = IF t = "errors" THEN serverstats.errors
                        ELSE IF p \in DOMAIN serverstats.uri
                             THEN serverstats.uri[p] ELSE 0 ]]
    /\ UNCHANGED << env, now, running, storeVars, INFLUX, serverstats, sinkLog,
                    pollerVars, apiPc, mainPc, nreq, served, histVars >>

\* the store half of the 'errors' statement
H_ErrWrite(h) ==
    /\ hs[h].pc = "err_wr"
    /\ serverstats' = [serverstats EXCEPT !.errors = hs[h].tmp + 1]
    /\ hs' = [hs EXCEPT ![h] = [ @ EXCEPT !.pc = "gets_rd" ]]
    /\ UNCHANGED << env, now, running, storeVars, INFLUX, sinkLog, pollerVars,
                    apiPc, mainPc, nreq, served, histVars >>

\* fault injection: a path seen for the first time entered with 0
UriValue_FirstLost(t) == IF t = 0 THEN 0 ELSE t + 1

\* what the 'uri' statement stores: 1 for a new key (t = 0), else t + 1
UriValue(t) == t + 1

\* the store half of the 'uri' statement
H_UriWrite(h) ==
    /\ hs[h].pc = "uri_wr"
    /\ LET p == hs[h].path
           u == serverstats.uri
       IN serverstats' =
            [serverstats EXCEPT !.uri =
               [ q \in (DOMAIN u) \cup {p} |-> IF q = p THEN UriValue(hs[h].tmp) ELSE u[q] ]]
    /\ hs' = [hs EXCEPT ![h] = [ @ EXCEPT !.pc = "gets_rd" ]]
    /\ UNCHANGED << env, now, running, storeVars, INFLUX, sinkLog, pollerVars,
                    apiPc, mainPc, nreq, served, histVars >>

\* the read half of "serverstats['gets'] = serverstats['gets'] + 1"
H_GetsRead(h) ==
    /\ hs[h].pc = "gets_rd"
    /\ hs' = [hs EXCEPT ![h] = [ @ EXCEPT !.pc = "gets_wr", !.tmp = serverstats.gets ]]
    /\ UNCHANGED << env, now, running, storeVars, INFLUX, serverstats, sinkLog,
                    pollerVars, apiPc, mainPc, nreq, served, histVars >>

\* the store half of the 'gets' statement
H_GetsWrite(h) ==
    /\ hs[h].pc = "gets_wr"
    /\ serverstats' = [serverstats EXCEPT !.gets = hs[h].tmp + 1]
    /\ hs' = [hs EXCEPT ![h] = [ @ EXCEPT !.pc = "send" ]]
    /\ UNCHANGED << env, now, running, storeVars, INFLUX, sinkLog, pollerVars,
                    apiPc, mainPc, nreq, served, histVars >>

\* send_header x2, end_headers, wfile.write: the request completes
H_Send(h) ==
    /\ hs[h].pc = "send"
    /\ hs' = [hs EXCEPT ![h] = Idle]
    /\ served' = served + 1
    /\ UNCHANGED << env, now, running, storeVars, INFLUX, serverstats, sinkLog,
                    pollerVars, apiPc, mainPc, nreq, histVars >>

(* --------------------------- specification ----------------------------- *)
Next ==
    \/ P_Check \/ P_Fetch \/ P_Clear \/ P_SetDt \/ P_Map \/ P_Loaded
    \/ P_Sink \/ P_Sleep
    \/ M_Interrupt \/ M_StopRefused
    \/ A_Check
    \/ \E h \in Handlers : \E path \in ReqPaths : A_Accept(h, path)
    \/ \E h \in Handlers : A_AcceptStop(h)
    \/ \E h \in Handlers : H_Build(h)
    \/ \E h \in Handlers : H_Footer(h)
    \/ \E h \in Handlers : H_Read(h)
    \/ \E h \in Handlers : H_Abort(h)
    \/ \E h \in Handlers : H_Count(h)
    \/ \E h \in Handlers : H_ErrWrite(h)
    \/ \E h \in Handlers : H_UriWrite(h)
    \/ \E h \in Handlers : H_GetsRead(h)
    \/ \E h \in Handlers : H_GetsWrite(h)
    \/ \E h \in Handlers : H_Send(h)

Spec == Init /\ [][Next]_vars

\* the steps of the poller thread, and of the thread of handler slot h
Poller ==
    P_Check \/ P_Fetch \/ P_Clear \/ P_SetDt \/ P_Map \/ P_Loaded \/ P_Sink \/ P_Sleep

HandlerStep(h) ==
    \/ H_Build(h) \/ H_Footer(h) \/ H_Read(h) \/ H_Abort(h) \/ H_Count(h)
    \/ H_ErrWrite(h) \/ H_UriWrite(h) \/ H_GetsRead(h) \/ H_GetsWrite(h)
    \/ H_Send(h)

\* the runs in which progress is examined: those that poll with a client
\* and those that are shut down
LiveInit == Init /\ env.name \in {"poll", "stop"}

\* Every started thread keeps being scheduled: fetchWeather, api and the
\* handler threads are operating-system threads, and the main thread sends
\* its GET /stop right after clearing the flag.  Nothing is assumed of the
\* clients (A_Accept) nor of the interrupt (M_Interrupt).
LiveSpec ==
    /\ LiveInit
    /\ [][Next]_vars
    /\ WF_vars(Poller)
    /\ WF_vars(A_Check)
    /\ WF_vars(\E h \in Handlers : A_AcceptStop(h))
    /\ WF_vars(M_StopRefused)
    /\ \A h \in Handlers : WF_vars(HandlerStep(h))

(* ------------------------------ claims --------------------------------- *)
\* do_GET has built its message and not yet returned
BuiltPcs == {"count", "err_wr", "uri_wr", "gets_rd", "gets_wr", "send"}

\* the response of handler h is the view its path gives of Observation o
Reflects(h, o) ==
    LET b == hs[h].body
        r == Route(hs[h].path)
    IN  CASE r = "json"   -> b = o
          [] r = "fields" -> \A f \in DOMAIN b : b[f] = o[f]
          [] r = "index"  -> (b.nodata \/ b.rows = o) /\ b.last = o["dt"]
          [] OTHER        -> TRUE

\* C1: every Observation-derived response (/json, /all, /, the single-field
\* and grouped paths) reflects the Observation of exactly one completed poll
\* cycle, the previous one or the new one: never a cleared or partially
\* populated Observation, never fields of two polls.
C1_ResponseReflectsOnePoll ==
    \A h \in Handlers :
        (hs[h].pc \in BuiltPcs /\ hs[h].path \in ObsPaths)
            => \E o \in hs[h].seen : Reflects(h, o)

\* C2: a poll cycle whose mapping raised has no effect: once it is over the
\* Observation, the readiness flag and the sink are as they were when the
\* cycle began.
C2_MappingExceptionHasNoEffect ==
    (pPc = "sleep" /\ cycle.mapexc)
        => /\ weather = pre.weather
           /\ LOADED = pre.LOADED
           /\ Len(sinkLog) = pre.sinkLen

\* C2 (amended): a poll cycle whose mapping raised is not abandoned: when it
\* is over the Observation is the cycle's own (its dt, the fields assigned
\* before the exception, defaults elsewhere), the readiness flag is set and,
\* with the sink enabled, the sink block has run, its record holding that
\* Observation; the poller is at its sleep.
C2_MappingExceptionStillPublishes ==
    (pPc = "sleep" /\ cycle.mapexc)
        => /\ weather = MapWeather([clearweather EXCEPT !["dt"] = lasttime], raw).w
           /\ weather = published
           /\ weather["dt"] = lasttime
           /\ LOADED
           /\ INFLUX => cycle.sink # "none"
           /\ (INFLUX /\ SinkWrites(cycle.sink))
                 => /\ Len(sinkLog) = pre.sinkLen + 1
                    /\ sinkLog[Len(sinkLog)].fields = weather

\* C2 witness: a cycle that began with data loaded has ended, its mapping
\* raised, and its record went to the sink.
C2_Witness ==
    /\ pPc = "sleep"
    /\ cycle.mapexc
    /\ pre.LOADED
    /\ weather["dt"] # pre.weather["dt"]
    /\ cycle.sink = "write_true"

\* C3: when every request handled so far has completed, serverstats['gets']
\* equals the number of completed requests, whatever the interleaving of the
\* handler threads.
C3_GetsCountsEveryRequest ==
    (\A h \in Handlers : hs[h].pc = "idle") => serverstats.gets = served

\* C4: no step of any thread decreases or resets a counter: total requests,
\* total errors, every per-path count, sink successes, sink failures.
C4_CountersNeverDecrease ==
    [][ /\ serverstats'.gets >= serverstats.gets
        /\ serverstats'.errors >= serverstats.errors
        /\ serverstats'.influxdb >= serverstats.influxdb
        /\ serverstats'.influxdberrors >= serverstats.influxdberrors
        /\ \A p \in DOMAIN serverstats.uri :
              /\ p \in DOMAIN serverstats'.uri
              /\ serverstats'.uri[p] >= serverstats.uri[p] ]_vars

\* C5 as stated: a request for a path outside the routing table gets the
\* literal error payload, adds one to the total-error counter and adds one to
\* the per-path counter keyed by that path, which is thereby retained in the
\* per-path map.
C5_UnknownPathCountedPerPath ==
    \A h \in Handlers :
        (hs[h].pc = "send" /\ hs[h].path \notin SpecRoutes)
            => /\ hs[h].body = [ text |-> "Error: Unsupported Request" ]
               /\ serverstats.errors >= 1
               /\ hs[h].path \in DOMAIN serverstats.uri

\* C5 (amended): a request for a path that do_GET does not route gets the
\* literal error payload; its counting step stores into the total-error
\* counter one more than the value it read (one more than the counter when no
\* other handler wrote it in between) and leaves the per-path map alone; no
\* unrouted path is ever a key of the per-path map.
C5_UnknownPathCountedAsError ==
    /\ [](\A h \in Handlers :
            (hs[h].pc \in BuiltPcs /\ Route(hs[h].path) = "unsupported")
                => hs[h].body = [ text |-> "Error: Unsupported Request" ] /\ hs[h].err)
    /\ [](\A p \in DOMAIN serverstats.uri : Route(p) # "unsupported")
    /\ [][ \A h \in Handlers :
             ( /\ Route(hs[h].path) = "unsupported"
               /\ hs[h].pc \in {"count", "err_wr"}
               /\ hs'[h].pc = "gets_rd" )
                 => /\ hs[h].pc = "err_wr"
                    /\ serverstats'.errors = hs[h].tmp + 1
                    /\ (serverstats.errors = hs[h].tmp
                          => serverstats'.errors = serverstats.errors + 1)
                    /\ serverstats'.uri = serverstats.uri ]_vars

\* C5 witness: an unrouted request is about to be answered, it has been
\* counted as an error and its path is not in the per-path map.
C5_Witness ==
    \E h \in Handlers :
        /\ hs[h].pc = "send"
        /\ hs[h].path = "/nonexistent"
        /\ serverstats.errors >= 1
        /\ hs[h].path \notin DOMAIN serverstats.uri

\* C6: a request for a path of the routing table, /rain and /precipitation
\* included, never raises inside the handler.
C6_RoutedPathsNeverRaise ==
    \A h \in Handlers : hs[h].path \in SpecRoutes => hs[h].pc # "raised"

\* C7: a GET /json (or /all) served while the readiness flag is false returns
\* the not-loaded sentinel (dt = 0, every field at its default), and a GET /
\* served then returns the no-data message.
C7_NotLoadedSentinel ==
    \A h \in Handlers :
        (hs[h].pc \in BuiltPcs \cup {"footer"} /\ ~hs[h].ld)
            => /\ Route(hs[h].path) = "json" => hs[h].body = clearweather
               /\ Route(hs[h].path) = "index" => hs[h].body.nodata

\* C8: the step in which a fetch fails (request exception, timeout, non-200
\* status) adds one to an error counter of serverstats.
C8_FetchFailureCounted ==
    [][ (pPc = "fetch" /\ cycle'.fetch = "failed")
          => \/ serverstats'.errors = serverstats.errors + 1
             \/ serverstats'.timeout = serverstats.timeout + 1
             \/ serverstats'.influxdberrors = serverstats.influxdberrors + 1 ]_vars

\* C9: from the failure of a fetch (request exception, non-200 status,
\* undecodable body) until the next cycle fires, the Observation, the raw
\* snapshot and the readiness flag are what they were when the cycle began,
\* and nothing has been written to the sink.
C9_FailedFetchChangesNothing ==
    cycle.fetch = "failed"
        => /\ weather = pre.weather
           /\ raw = pre.raw
           /\ LOADED = pre.LOADED
           /\ Len(sinkLog) = pre.sinkLen
           /\ pPc \in {"sleep", "loop", "exit"}

\* C9 witness: a fetch has failed in a cycle that began with data loaded.
C9_Witness ==
    /\ cycle.fetch = "failed"
    /\ pPc = "sleep"
    /\ pre.LOADED
    /\ pre.weather["dt"] # 0

\* C10: after a failed sink write (the client raised or reported failure) the
\* sink-error counter is higher than when the cycle began, the Observation is
\* the one this cycle built, the readiness flag is set, and the poller is at
\* its sleep or back in its loop, as after a successful write.
C10_SinkFailureIsolated ==
    cycle.sink \in SinkFailures
        => /\ serverstats.influxdberrors > pre.influxdberrors
           /\ serverstats.influxdb = pre.influxdb
           /\ weather = published
           /\ LOADED
           /\ pPc \in {"sleep", "loop", "exit"}

\* C10 witness: the sink reported failure without raising, and the poller
\* has slept and is back at the head of its loop.
C10_Witness ==
    /\ cycle.sink = "write_false"
    /\ pPc = "loop"
    /\ sleeps >= 1
    /\ serverstats.influxdberrors = pre.influxdberrors + 1

\* the sink block of this loop iteration has run
SinkDone == pPc = "sleep" /\ cycle.sink # "none"

\* C11: every cycle that publishes with the sink enabled writes exactly one
\* record, whose fields are the Observation published by that cycle, and
\* raises influxdb + influxdberrors by exactly one, also when client.close()
\* raises after the write.
C11_OneRecordOneCount ==
    SinkDone =>
      /\ Len(sinkLog) = pre.sinkLen + 1
      /\ sinkLog[Len(sinkLog)].fields = published
      /\ serverstats.influxdb + serverstats.influxdberrors
           = pre.influxdb + pre.influxdberrors + 1

(* ------------------------- claims on the mapping ----------------------- *)
\* the number a device string spells once everything but digits and '.' is
\* dropped, in tenths (one decimal); None when no number is left
Numeral(val) ==
    CASE val = "20.5"      -> 205
      [] val = "50%"       -> 500
      [] val = "10.0 km/h" -> 100
      [] val = "0.0 mm"    -> 0
      [] val = "21.3"      -> 213
      [] val = "415"       -> 4150
      [] val = "7"         -> 70
      [] OTHER             -> None

\* the map the mapping step applies to a category of the payload
CategoryMap(key) ==
    CASE key \in {"common_list", "rain"} -> OBSERVATION_MAP
      [] key = "wh25"                    -> WH25_MAP
      [] key = "co2"                     -> CO2_MAP

\* the (category, position) pairs of the payload r that hold a recognised code
Recognised(r) ==
    { kp \in UNION { {k} \X (1..Len(r[k])) : k \in DOMAIN r } :
        r[kp[1]][kp[2]].id \in DOMAIN CategoryMap(kp[1]) }

\* the canonical field a recognised pair is mapped to, and its value
Target(r, kp) == CategoryMap(kp[1])[r[kp[1]][kp[2]].id]
Parsed(r, kp) == Numeral(r[kp[1]][kp[2]].val)

\* every value of the payload spells a number
WellFormed(r) ==
    \A k \in DOMAIN r : \A i \in 1..Len(r[k]) : Numeral(r[k][i].val) # None

\* the mapping step of this loop iteration has ended: published is the
\* Observation it built from raw
Mapped == pPc \in {"loaded", "sink", "sleep"} /\ cycle.fetch = "ok"

\* C12: after the mapping of a payload with well-formed values, every
\* recognised code has set its canonical field to the parsed value, the key
\* set is the canonical field set, and every unmapped field holds its default.
C12_MappingComplete ==
    (Mapped /\ WellFormed(raw)) =>
      /\ DOMAIN published = Fields
      /\ \A kp \in Recognised(raw) :
            /\ Target(raw, kp) \in Fields
            /\ published[Target(raw, kp)] = Parsed(raw, kp)
      /\ \A f \in Fields \ ({"dt", "app_temp"}
                              \cup { Target(raw, kp) : kp \in Recognised(raw) }) :
            published[f] = clearweather[f]

\* C13: a value that does not parse costs only its own field: every other
\* recognised code of the payload, before or after it, in its category or in
\* another, is mapped into the Observation the cycle publishes.
C13_ParseFailureIsolated ==
    (Mapped /\ ~WellFormed(raw)) =>
      \A kp \in Recognised(raw) :
         Parsed(raw, kp) # None => published[Target(raw, kp)] = Parsed(raw, kp)

\* the mapping of this iteration got as far as the app_temp call: no
\* getval raised before it
AppTempCalled ==
    Mapped /\ \A kp \in Recognised(raw) : getval(raw[kp[1]][kp[2]].val).ok

\* C14: when temperature, humidity or wind speed is absent after the codes
\* are mapped, app_temp gives the absent value without raising, and the
\* cycle publishes an Observation with app_temp absent.
C14_AppTempAbsentNoRaise ==
    ( /\ AppTempCalled
      /\ \E f \in {"temperature", "humidity", "wind_speed"} : published[f] = None )
    =>
      LET a == app_temp(published["temperature"], published["humidity"],
                        published["wind_speed"])
      IN  /\ a.ok
          /\ ~cycle.mapexc
          /\ published["app_temp"] = None

(* --------------------- claims on termination --------------------------- *)
\* C15: every cycle that enters fetching leaves it: the GET returns or
\* raises within a bounded time, also when the device never answers, and the
\* poller goes on to its sleep and its next timer check.
C15_FetchAlwaysReturns ==
    (pPc = "fetch") ~> (pPc \in {"clear", "sleep"})

\* C16: once running is False the poller starts no new cycle after its next
\* check of the flag, and its loop exits in the end, whether or not the
\* device and the sink answer.
C16_PollerStopsAfterShutdown ==
    /\ [][(~running /\ pPc = "loop") => pPc' \in {"loop", "exit"}]_vars
    /\ (~running) ~> (pPc = "exit")

\* a step in which the accept loop hands a request to a new handler thread
AcceptStep == \E h \in Handlers : hs[h].pc = "idle" /\ hs'[h].pc # "idle"

\* C17 as stated: once running is False the Query Server accepts no new
\* request, and the serving loop exits in the end.
C17_NoAcceptAfterShutdown ==
    /\ [][~running => ~AcceptStep]_vars
    /\ (~running) ~> (apiPc = "exit")

\* C17 as the code has it: the handle_request() call that is waiting when
\* running is cleared still accepts one request; the loop then leaves at its
\* next test of the flag and accepts nothing afterwards, and it does leave
\* in the end, since the main thread sends GET /stop.
C17_OneLastAccept ==
    /\ [][AcceptStep => (apiPc = "accept" /\ apiPc' = "check")]_vars
    /\ [][(~running /\ apiPc = "check") => apiPc' \in {"check", "exit"}]_vars
    /\ [][apiPc = "exit" => (apiPc' = "exit" /\ ~AcceptStep)]_vars
    /\ (~running) ~> (apiPc = "exit")

\* the main thread's GET /stop was accepted after the flag was cleared, and
\* the accept loop has left
C17_Witness ==
    /\ ~running
    /\ apiPc = "exit"
    /\ \E h \in Handlers : hs[h].path = "/stop"

(* ----------------------- claims on the cadence ------------------------- *)
\* C18: with WAIT = ECOWAIT, a GET is issued only by a timer fire, one per
\* fire; the clock readings that start two consecutive GETs are at least
\* 10 * ECOWAIT apart however long the fetches take and however they end;
\* between two checks of the timer the poller sleeps 5 seconds.
C18_PollCadence ==
    /\ [](pre.prevFire # None => pre.fire - pre.prevFire >= WaitScale * ECOWAIT)
    /\ [][(pPc # "fetch" /\ pPc' = "fetch")
            => (pPc = "loop" /\ now >= nextupdate /\ pre'.fire = now)]_vars
    /\ [][(pPc = "fetch" /\ pPc' # "fetch") => pPc' \in {"clear", "sleep", "hung"}]_vars
    /\ [][(pPc # "loop" /\ pPc' = "loop")
            => (pPc = "sleep" /\ now' = now + SleepSecs)]_vars

\* a second GET starts after a first one that took SlowFetch seconds
C18_Witness ==
    /\ pPc = "fetch"
    /\ pre.prevFire # None
    /\ pre.fire - pre.prevFire > WaitScale * ECOWAIT

(* ------------------------ claims on the handlers ----------------------- *)
\* a step of a handler thread that is in do_GET
HandlerActs == \E h \in Handlers : hs[h].pc # "idle" /\ hs'[h] # hs[h]

\* C19: only the poller writes the Observation Store: a step of a handler
\* leaves weather, raw and LOADED as they are, and of the shared state it
\* changes nothing but serverstats.
C19_HandlersLeaveStore ==
    [][HandlerActs =>
         /\ UNCHANGED << weather, raw, LOADED >>
         /\ UNCHANGED << running, INFLUX, sinkLog, now >>]_vars

\* a request was answered from a loaded store, which still holds what the
\* poller published
C19_Witness ==
    /\ LOADED
    /\ served >= 1
    /\ weather = published
    /\ weather["dt"] # 0

\* the sum of the per-path counters
RECURSIVE SumUri(_)
SumUri(u) ==
    IF DOMAIN u = {} THEN 0
    ELSE LET q == CHOOSE x \in DOMAIN u : TRUE
         IN  u[q] + SumUri([ y \in (DOMAIN u) \ {q} |-> u[y] ])

\* C20: when requests have been handled one at a time, gets is errors plus
\* the sum of the per-path counters, and every completed request was
\* counted once.
C20_SequentialCountersAddUp ==
    (~overlapped /\ InFlight = {}) =>
      /\ serverstats.gets = serverstats.errors + SumUri(serverstats.uri)
      /\ serverstats.gets = served

\* three requests one after the other, errors and successes among them
C20_Witness ==
    /\ ~overlapped
    /\ InFlight = {}
    /\ serverstats.gets = MaxRequests
    /\ serverstats.errors >= 1
    /\ SumUri(serverstats.uri) >= 2
====
